---------------------------- MODULE Spec2Model ----------------------------
(***************************************************************************)
(* A model of PyInvaders (src/invaders.py): the main loop of Game, the     *)
(* update of Player, Alien and Bullet, the collision pass of               *)
(* Game.update_logic with Python's list-iterator semantics, the render     *)
(* pass and the event handling that follows it.                            *)
(***************************************************************************)
EXTENDS Integers, Sequences, FiniteSets, TLC

\* ------------------------------------------------------------------ bounds
\* Ticks the main loop may start in the runs with input events.
MaxTicks == 2
\* Input events delivered over a whole run with input events.
MaxEvents == 3
\* Ticks of the runs without input (long enough for the alien to meet both limits).
MaxQuietTicks == 180
\* Lengths of the lists handed to the collision pass on its own.
MaxAliens == 3
MaxBullets == 3
\* Ticks a run that starts in mid-game goes on for.
MaxHitTicks == 3
\* Bullets in flight when a run from mid-game starts.
MaxHitBullets == 3

\* ------------------------------------------------------- program constants
PlayerStartX == 100
PlayerStartY == 500
PlayerStep == 10
AlienStartX == 100
AlienStartY == 100
AlienStartSpeed == 5
LeftLimit == 50
RightLimit == 500
AlienDrop == 10
BulletVelocity == 10
SpawnY == 500

\* ------------------------------------------------------------------ events
KeyEvent(t, k) == [type |-> t, key |-> k]
QuitEvent == [type |-> "QUIT", key |-> "NONE"]
Keys == {"K_LEFT", "K_RIGHT", "K_SPACE", "K_ESCAPE"}
Events == {KeyEvent(t, k) : t \in {"KEYDOWN", "KEYUP"}, k \in Keys} \cup {QuitEvent}

\* pygame.event.get(): every batch of at most n events.
Batches(n) == UNION {[1..m -> Events] : m \in 0..n}

\* The sizes of the images loaded from Alien.png and Bullet.png (get_rect()).
DimChoices ==
    { [aw |-> 40, ah |-> 30, bw |-> 8, bh |-> 16],
      [aw |-> 12, ah |-> 12, bw |-> 25, bh |-> 25] }

\* ----------------------------------------------------------------- helpers
Range(s) == {s[i] : i \in 1..Len(s)}

Contains(s, e) == \E i \in 1..Len(s) : s[i] = e

\* list.remove(e): the list without the first element equal to e.
Remove(s, e) ==
    LET i == CHOOSE k \in 1..Len(s) : s[k] = e /\ \A j \in 1..(k - 1) : s[j] # e
    IN  SubSeq(s, 1, i - 1) \o SubSeq(s, i + 1, Len(s))

\* ------------------------------------------------------------------ Player
Player == [x |-> PlayerStartX, y |-> PlayerStartY, x_vel |-> 0, y_vel |-> 0]

\* VelDelta with the release of LEFT subtracting the step, as its press does.
VelDelta_LeftUpSubtracts(e) ==
    IF e.type = "KEYDOWN" THEN
        (IF e.key = "K_LEFT" THEN -PlayerStep ELSE IF e.key = "K_RIGHT" THEN PlayerStep ELSE 0)
    ELSE IF e.type = "KEYUP" THEN
        (IF e.key = "K_LEFT" THEN -PlayerStep ELSE IF e.key = "K_RIGHT" THEN -PlayerStep ELSE 0)
    ELSE 0

\* VelDelta with the release of RIGHT adding the step, as its press does.
VelDelta_RightUpAdds(e) ==
    IF e.type = "KEYDOWN" THEN
        (IF e.key = "K_LEFT" THEN -PlayerStep ELSE IF e.key = "K_RIGHT" THEN PlayerStep ELSE 0)
    ELSE IF e.type = "KEYUP" THEN
        (IF e.key = "K_LEFT" THEN PlayerStep ELSE IF e.key = "K_RIGHT" THEN PlayerStep ELSE 0)
    ELSE 0

\* The change one event makes to x_vel.
VelDelta(e) ==
    IF e.type = "KEYDOWN" THEN
        (IF e.key = "K_LEFT" THEN -PlayerStep ELSE IF e.key = "K_RIGHT" THEN PlayerStep ELSE 0)
    ELSE IF e.type = "KEYUP" THEN
        (IF e.key = "K_LEFT" THEN PlayerStep ELSE IF e.key = "K_RIGHT" THEN -PlayerStep ELSE 0)
    ELSE 0

RECURSIVE VelAfter(_, _)
VelAfter(v, evs) ==
    IF evs = << >> THEN v ELSE VelAfter(v + VelDelta(Head(evs)), Tail(evs))

\* The x of a player moved after each event of the batch.
RECURSIVE XAfterEach(_, _, _)
XAfterEach(x, v, evs) ==
    IF evs = << >> THEN x
    ELSE XAfterEach(x + v + VelDelta(Head(evs)), v + VelDelta(Head(evs)), Tail(evs))

\* PlayerUpdate with the move inside the loop over the events.
PlayerUpdate_MovePerEvent(p, evs) ==
    [p EXCEPT !.x_vel = VelAfter(p.x_vel, evs), !.x = XAfterEach(p.x, p.x_vel, evs),
              !.y = p.y + p.y_vel]

\* PlayerUpdate with the position moved by the velocity held before the events.
PlayerUpdate_MoveFirst(p, evs) ==
    [p EXCEPT !.x_vel = VelAfter(p.x_vel, evs), !.x = p.x + p.x_vel, !.y = p.y + p.y_vel]

PlayerUpdate(p, evs) ==
    LET v == VelAfter(p.x_vel, evs)
    IN  [p EXCEPT !.x_vel = v, !.x = p.x + v, !.y = p.y + p.y_vel]

\* ------------------------------------------------------------------- Alien
Alien(id, start_x, start_y, speed) ==
    [id |-> id, x |-> start_x, y |-> start_y, speed |-> speed,
     left_limit |-> LeftLimit, right_limit |-> RightLimit]

\* AlienUpdate with the limits tested on x before the move.
AlienUpdate_TestBeforeMove(a) ==
    LET nx == a.x + a.speed
    IN  IF a.x < a.left_limit \/ a.x > a.right_limit
        THEN [a EXCEPT !.x = nx, !.speed = -a.speed, !.y = a.y + AlienDrop]
        ELSE [a EXCEPT !.x = nx]

\* AlienUpdate with the drop at a limit but without the change of direction.
AlienUpdate_DropOnly(a) ==
    LET nx == a.x + a.speed
    IN  IF nx < a.left_limit \/ nx > a.right_limit
        THEN [a EXCEPT !.x = nx, !.y = a.y + AlienDrop]
        ELSE [a EXCEPT !.x = nx]

AlienUpdate(a) ==
    LET nx == a.x + a.speed
    IN  IF nx < a.left_limit \/ nx > a.right_limit
        THEN [a EXCEPT !.x = nx, !.speed = -a.speed, !.y = a.y + AlienDrop]
        ELSE [a EXCEPT !.x = nx]

\* ------------------------------------------------------------------ Bullet
Bullet(id, x, y) == [id |-> id, x |-> x, y |-> y, velocity |-> BulletVelocity]

\* BulletUpdate with the bullet held at the top of the screen.
BulletUpdate_StopsAtTop(b) == [b EXCEPT !.y = IF b.y <= 0 THEN b.y ELSE b.y - b.velocity]

BulletUpdate(b) == [b EXCEPT !.y = b.y - b.velocity]

\* -------------------------------------------------------------- rectangles
AlienRect(a, d) == [x |-> a.x, y |-> a.y, w |-> d.aw, h |-> d.ah]
BulletRect(b, d) == [x |-> b.x, y |-> b.y, w |-> d.bw, h |-> d.bh]

\* Rect.colliderect: the two rectangles overlap on both axes.
CollideRect(r, s) ==
    /\ r.x < s.x + s.w
    /\ s.x < r.x + r.w
    /\ r.y < s.y + s.h
    /\ s.y < r.y + r.h

Hits(b, a, d) == CollideRect(BulletRect(b, d), AlienRect(a, d))

\* ---------------------------------------------------------- collision pass
\* The nested for loops of update_logic.  A Python list iterator keeps an
\* index into the list it walks: a remove() during the walk shifts the
\* later elements down, and the iterator goes on from its index.  bi and ai
\* are the (1-based) indexes the two iterators read next.
RECURSIVE InnerLoop(_, _, _, _, _, _)
InnerLoop(bl, al, bullet, ai, log, d) ==
    IF ai > Len(al) THEN [bl |-> bl, al |-> al, err |-> FALSE, log |-> log]
    ELSE LET alien == al[ai]
             log2  == Append(log, <<bullet.id, alien.id>>)
         IN  IF Hits(bullet, alien, d)
             THEN IF ~Contains(bl, bullet)
                  THEN \* bullet_list.remove(bullet) raises ValueError
                       [bl |-> bl, al |-> al, err |-> TRUE, log |-> log2]
                  ELSE InnerLoop(Remove(bl, bullet), Remove(al, alien),
                                 bullet, ai + 1, log2, d)
             ELSE InnerLoop(bl, al, bullet, ai + 1, log2, d)

RECURSIVE OuterLoop(_, _, _, _, _)
OuterLoop(bl, al, bi, log, d) ==
    IF bi > Len(bl) THEN [bl |-> bl, al |-> al, err |-> FALSE, log |-> log]
    ELSE LET r == InnerLoop(bl, al, bl[bi], 1, log, d)
         IN  IF r.err THEN r ELSE OuterLoop(r.bl, r.al, bi + 1, r.log, d)

\* CollisionPass with line 75, the removal of the bullet, left out.
CollisionPass_KeepsBullets(bl, al, d) ==
    [OuterLoop(bl, al, 1, << >>, d) EXCEPT !.bl = bl, !.err = FALSE]

\* CollisionPass with line 76, the removal of the alien, left out.
CollisionPass_KeepsAliens(bl, al, d) ==
    [OuterLoop(bl, al, 1, << >>, d) EXCEPT !.al = al]

\* CollisionPass with a new alien put in once the alien list is empty.
CollisionPass_Respawns(bl, al, d) ==
    IF al = << >>
    THEN [bl |-> bl, al |-> <<Alien(1, AlienStartX, AlienStartY, AlienStartSpeed)>>,
          err |-> FALSE, log |-> << >>]
    ELSE OuterLoop(bl, al, 1, << >>, d)

CollisionPass(bl, al, d) == OuterLoop(bl, al, 1, << >>, d)

\* ------------------------------------------------------------- render pass
Blit(img, x, y) == [img |-> img, x |-> x, y |-> y]

\* Blits with the bullets drawn before the aliens.
Blits_BulletsFirst(p, al, bl) ==
    <<Blit("back", 0, 0), Blit("UFO", p.x, p.y)>>
        \o [i \in 1..Len(bl) |-> Blit("Bullet", bl[i].x, bl[i].y)]
        \o [i \in 1..Len(al) |-> Blit("Alien", al[i].x, al[i].y)]

Blits(p, al, bl) ==
    <<Blit("back", 0, 0), Blit("UFO", p.x, p.y)>>
        \o [i \in 1..Len(al) |-> Blit("Alien", al[i].x, al[i].y)]
        \o [i \in 1..Len(bl) |-> Blit("Bullet", bl[i].x, bl[i].y)]

\* --------------------------------------------------- the loop's event walk
\* EventWalk with one bullet for a batch, however many SPACE presses it holds.
EventWalk_OneBullet(evs, bl, run, nid, px) ==
    LET fire == \E i \in 1..Len(evs) : evs[i].type = "KEYDOWN" /\ evs[i].key = "K_SPACE"
        stop == \E i \in 1..Len(evs) :
                    \/ evs[i].type = "KEYUP" /\ evs[i].key = "K_ESCAPE"
                    \/ evs[i].type = "QUIT"
    IN  [bl |-> IF fire THEN Append(bl, Bullet(nid, px, SpawnY)) ELSE bl,
         running |-> run /\ ~stop,
         next_id |-> IF fire THEN nid + 1 ELSE nid]

\* EventWalk with the press of ESCAPE, not its release, clearing running.
RECURSIVE EventWalk_EscapeDown(_, _, _, _, _)
EventWalk_EscapeDown(evs, bl, run, nid, px) ==
    IF evs = << >> THEN [bl |-> bl, running |-> run, next_id |-> nid]
    ELSE LET e   == Head(evs)
             sp  == e.type = "KEYDOWN" /\ e.key = "K_SPACE"
             bl2 == IF sp THEN Append(bl, Bullet(nid, px, SpawnY)) ELSE bl
             nid2 == IF sp THEN nid + 1 ELSE nid
             run2 == IF e.type = "KEYDOWN"
                     THEN (IF e.key = "K_ESCAPE" THEN FALSE ELSE run)
                     ELSE (IF e.type = "QUIT" THEN FALSE ELSE run)
         IN  EventWalk_EscapeDown(Tail(evs), bl2, run2, nid2, px)

\* EventWalk with the bullet spawned where the player was before a move to the right.
RECURSIVE EventWalk_SpawnBehind(_, _, _, _, _)
EventWalk_SpawnBehind(evs, bl, run, nid, px) ==
    IF evs = << >> THEN [bl |-> bl, running |-> run, next_id |-> nid]
    ELSE LET e   == Head(evs)
             sp  == e.type = "KEYDOWN" /\ e.key = "K_SPACE"
             bl2 == IF sp THEN Append(bl, Bullet(nid, px - PlayerStep, SpawnY)) ELSE bl
             nid2 == IF sp THEN nid + 1 ELSE nid
             run2 == IF e.type = "KEYUP"
                     THEN (IF e.key = "K_ESCAPE" THEN FALSE ELSE run)
                     ELSE (IF e.type = "QUIT" THEN FALSE ELSE run)
         IN  EventWalk_SpawnBehind(Tail(evs), bl2, run2, nid2, px)

\* The for loop over event_list at the end of a tick.
RECURSIVE EventWalk(_, _, _, _, _)
EventWalk(evs, bl, run, nid, px) ==
    IF evs = << >> THEN [bl |-> bl, running |-> run, next_id |-> nid]
    ELSE LET e   == Head(evs)
             sp  == e.type = "KEYDOWN" /\ e.key = "K_SPACE"
             bl2 == IF sp THEN Append(bl, Bullet(nid, px, SpawnY)) ELSE bl
             nid2 == IF sp THEN nid + 1 ELSE nid
             run2 == IF e.type = "KEYUP"
                     THEN (IF e.key = "K_ESCAPE" THEN FALSE ELSE run)
                     ELSE (IF e.type = "QUIT" THEN FALSE ELSE run)
         IN  EventWalk(Tail(evs), bl2, run2, nid2, px)

\* ------------------------------------------------------- the order of a tick
\* What main_loop does after step s of a tick: update_logic (the update, then
\* the collision pass), update_display, the walk over the events, and back
\* to the test of running.
\* StepAfter with the walk over the events (the spawn) before update_display.
StepAfter_SpawnBeforeRender(s) ==
    CASE s = "tick"    -> "update"
      [] s = "update"  -> "collide"
      [] s = "collide" -> "events"
      [] s = "events"  -> "display"
      [] s = "display" -> "tick"

\* StepAfter with the walk over the events (the spawn) before update_logic.
StepAfter_SpawnBeforeUpdate(s) ==
    CASE s = "tick"    -> "events"
      [] s = "events"  -> "update"
      [] s = "update"  -> "collide"
      [] s = "collide" -> "display"
      [] s = "display" -> "tick"

StepAfter(s) ==
    CASE s = "tick"    -> "update"
      [] s = "update"  -> "collide"
      [] s = "collide" -> "display"
      [] s = "display" -> "events"
      [] s = "events"  -> "tick"

\* ------------------------------------------------------------------- state
VARIABLES
    pc,           \* where the main loop is: tick, update, collide, display, events, done, crashed
    running,      \* main_loop's running flag
    event_list,   \* the batch of this tick
    player,       \* the Player object
    alien_list,   \* Game.alien_list
    bullet_list,  \* Game.bullet_list
    next_id,      \* the identity the next Bullet object gets
    dims,         \* the sizes of the loaded images
    frame,        \* the blits of the last render pass
    ticks,        \* ticks started so far
    horizon,      \* the tick the run is followed to
    budget,       \* input events that may still arrive in the run
    seen,         \* observer: the events Player.update has processed
    steps,        \* observer: the steps of the current tick, in order
    prev,         \* observer: player, aliens and bullets before this tick's update
    pass_in,      \* observer: the two lists as the collision pass found them
    cmp,          \* observer: the (bullet, alien) pairs the pass compared, in order
    walk_in,      \* observer: the bullet list as the last event walk found it
    flips,        \* observer: the tick and the alien's x, each time its speed changed sign
    trail         \* observer: the player's position as the run began, and the sum of the
                  \* velocities x_vel held after each tick's events were applied

vars == <<pc, running, event_list, player, alien_list, bullet_list, next_id, dims,
          frame, ticks, horizon, budget, seen, steps, prev, pass_in, cmp, walk_in, flips,
          trail>>

observers == <<seen, steps, prev, pass_in, cmp, walk_in, flips, trail>>

NoLists == [bl |-> << >>, al |-> << >>]

\* The state Game.__init__ leaves, up to the first test of running.
Started(d, h, n) ==
    /\ pc = "tick"
    /\ running = TRUE
    /\ event_list = << >>
    /\ player = Player
    /\ alien_list = <<Alien(1, AlienStartX, AlienStartY, AlienStartSpeed)>>
    /\ bullet_list = << >>
    /\ next_id = 1
    /\ dims = d
    /\ frame = <<Blit("back", 0, 0)>>
    /\ ticks = 0
    /\ horizon = h
    /\ budget = n
    /\ seen = << >>
    /\ steps = << >>
    /\ prev = [player |-> Player, al |-> << >>, bl |-> << >>]
    /\ pass_in = NoLists
    /\ cmp = << >>
    /\ walk_in = << >>
    /\ flips = << >>
    /\ trail = [x0 |-> player.x, y0 |-> player.y, sum |-> 0]

Init == \E d \in DimChoices : Started(d, MaxTicks, MaxEvents)

\* ----------------------------------------------------------------- actions
\* while running: clock.tick(60); event_list = pygame.event.get()
PollEvents ==
    /\ pc = "tick"
    /\ running
    /\ ticks < horizon
    /\ \E b \in Batches(budget) :
          /\ event_list' = b
          /\ budget' = budget - Len(b)
    /\ ticks' = ticks + 1
    /\ steps' = << >>
    /\ pc' = StepAfter("tick")
    /\ UNCHANGED <<running, player, alien_list, bullet_list, next_id, dims, frame,
                   horizon, seen, prev, pass_in, cmp, walk_in, flips, trail>>

\* update_logic, first half: the update of the player, the aliens, the bullets.
UpdateEntities ==
    /\ pc = "update"
    /\ player' = PlayerUpdate(player, event_list)
    /\ alien_list' = [i \in 1..Len(alien_list) |-> AlienUpdate(alien_list[i])]
    /\ bullet_list' = [i \in 1..Len(bullet_list) |-> BulletUpdate(bullet_list[i])]
    /\ seen' = seen \o event_list
    /\ prev' = [player |-> player, al |-> alien_list, bl |-> bullet_list]
    /\ flips' = LET F == {i \in 1..Len(alien_list) : alien_list'[i].speed # alien_list[i].speed}
                IN  IF F = {} THEN flips
                    ELSE Append(flips, [tick |-> ticks,
                                        x |-> alien_list'[CHOOSE i \in F : \A j \in F : i <= j].x])
    /\ trail' = [trail EXCEPT !.sum = @ + player'.x_vel]
    /\ steps' = Append(steps, "update")
    /\ pc' = StepAfter("update")
    /\ UNCHANGED <<running, event_list, next_id, dims, frame, ticks, horizon, budget,
                   pass_in, cmp, walk_in>>

\* update_logic, second half: the collision pass.
CheckCollisions ==
    /\ pc = "collide"
    /\ LET r == CollisionPass(bullet_list, alien_list, dims)
       IN  /\ bullet_list' = r.bl
           /\ alien_list' = r.al
           /\ cmp' = r.log
           /\ pc' = IF r.err THEN "crashed" ELSE StepAfter("collide")
    /\ pass_in' = [bl |-> bullet_list, al |-> alien_list]
    /\ steps' = Append(steps, "collide")
    /\ UNCHANGED <<running, event_list, player, next_id, dims, frame, ticks, horizon,
                   budget, seen, prev, walk_in, flips, trail>>

\* update_display
UpdateDisplay ==
    /\ pc = "display"
    /\ frame' = Blits(player, alien_list, bullet_list)
    /\ steps' = Append(steps, "display")
    /\ pc' = StepAfter("display")
    /\ UNCHANGED <<running, event_list, player, alien_list, bullet_list, next_id, dims,
                   ticks, horizon, budget, seen, prev, pass_in, cmp, walk_in, flips, trail>>

\* for event in event_list: spawn a bullet, or clear running
HandleEvents ==
    /\ pc = "events"
    /\ LET r == EventWalk(event_list, bullet_list, running, next_id, player.x)
       IN  /\ bullet_list' = r.bl
           /\ running' = r.running
           /\ next_id' = r.next_id
    /\ walk_in' = bullet_list
    /\ steps' = Append(steps, "events")
    /\ pc' = StepAfter("events")
    /\ UNCHANGED <<event_list, player, alien_list, dims, frame, ticks, horizon, budget,
                   seen, prev, pass_in, cmp, flips, trail>>

\* the while test fails: pygame.quit()
LoopExit ==
    /\ pc = "tick"
    /\ ~running
    /\ pc' = "done"
    /\ UNCHANGED <<running, event_list, player, alien_list, bullet_list, next_id, dims,
                   frame, ticks, horizon, budget, observers>>

Next ==
    \/ PollEvents
    \/ UpdateEntities
    \/ CheckCollisions
    \/ UpdateDisplay
    \/ HandleEvents
    \/ LoopExit

Spec == Init /\ [][Next]_vars

\* ------------------------------------------- the collision pass on its own
\* Where the aliens and bullets handed to the pass on its own may stand.
AlienSpots == {<<100, 100>>, <<130, 100>>}
BulletSpots == {<<100, 100>>, <<125, 100>>, <<300, 100>>}

AlienLists ==
    UNION {{[i \in 1..n |-> Alien(i, f[i][1], f[i][2], AlienStartSpeed)] :
                f \in [1..n -> AlienSpots]} : n \in 0..MaxAliens}

BulletLists ==
    UNION {{[i \in 1..n |-> Bullet(i, f[i][1], f[i][2])] :
                f \in [1..n -> BulletSpots]} : n \in 0..MaxBullets}

\* Any two lists of distinct objects, as update_logic reaches line 71 with them.
InitCollide ==
    \E d \in DimChoices, al \in AlienLists, bl \in BulletLists :
        /\ pc = "collide"
        /\ running = TRUE
        /\ event_list = << >>
        /\ player = Player
        /\ alien_list = al
        /\ bullet_list = bl
        /\ next_id = Len(bl) + 1
        /\ dims = d
        /\ frame = <<Blit("back", 0, 0)>>
        /\ ticks = 1
        /\ horizon = 1
        /\ budget = 0
        /\ seen = << >>
        /\ steps = <<"update">>
        /\ prev = [player |-> Player, al |-> << >>, bl |-> << >>]
        /\ pass_in = NoLists
        /\ cmp = << >>
        /\ walk_in = << >>
        /\ flips = << >>
        /\ trail = [x0 |-> player.x, y0 |-> player.y, sum |-> 0]

NextCollide ==
    \/ CheckCollisions
    \/ UpdateDisplay
    \/ HandleEvents

SpecCollide == InitCollide /\ [][NextCollide]_vars

\* The collision pass has just run to its end.
PassDone == pc = "display"
\* The collision pass raised ValueError.
PassRaised == pc = "crashed"

\* The bullets of bl whose rectangle intersects that of some alien of al.
Hitting(bl, al) == {i \in 1..Len(bl) : \E j \in 1..Len(al) : Hits(bl[i], al[j], dims)}
\* The aliens of al that bullet b intersects.
HitBy(b, al) == {j \in 1..Len(al) : Hits(b, al[j], dims)}

\* C1: for any two finite lists of bullets and aliens the collision pass
\* runs to its end without raising an error (it never removes a bullet
\* that is no longer in the bullet list).
C1_PassIsTotal == ~PassRaised

\* C2: after a completed collision pass no bullet still in the bullet list
\* intersects an alien still in the alien list.
C2_NoPairLeft ==
    PassDone => \A i \in 1..Len(bullet_list), j \in 1..Len(alien_list) :
                    ~Hits(bullet_list[i], alien_list[j], dims)

\* The index in the comparison log of bullet b's first comparison that matched.
FirstMatch(b) ==
    CHOOSE k \in 1..Len(cmp) :
        /\ cmp[k][1] = b.id
        /\ \E j \in HitBy(b, pass_in.al) : pass_in.al[j].id = cmp[k][2]
        /\ \A m \in 1..(k - 1) :
              ~(cmp[m][1] = b.id /\ \E j \in HitBy(b, pass_in.al) : pass_in.al[j].id = cmp[m][2])

\* C4: when the one bullet of a pass intersects two aliens, wherever they
\* sit in the alien list, the pass ends normally, removes the bullet and
\* the first of the two aliens only, and compares the bullet with no alien
\* after its first match.
C4_FirstMatchOnly ==
    (/\ PassDone \/ PassRaised
     /\ Len(pass_in.bl) = 1
     /\ Cardinality(HitBy(pass_in.bl[1], pass_in.al)) = 2)
    => LET b     == pass_in.bl[1]
           first == CHOOSE j \in HitBy(b, pass_in.al) : \A k \in HitBy(b, pass_in.al) : j <= k
       IN  /\ PassDone
           /\ bullet_list = << >>
           /\ alien_list = Remove(pass_in.al, pass_in.al[first])
           /\ cmp[Len(cmp)] = <<b.id, pass_in.al[first].id>>

\* --------------------------------------------------- runs without any input
\* The loop with every batch empty: running stays set, so the loop never ends.
NextQuiet ==
    \/ PollEvents
    \/ UpdateEntities
    \/ CheckCollisions
    \/ UpdateDisplay
    \/ HandleEvents

InitAlien == \E d \in DimChoices : Started(d, MaxQuietTicks, 0)

SpecAlien == InitAlien /\ [][NextQuiet]_vars

\* ------------------------------------------------------ runs from mid-game
\* The alien a after n more ticks in which no bullet met it: the run is cut
\* in halves, and the test on m.x has the first half computed before the
\* second starts from it.
RECURSIVE AlienRun(_, _)
AlienRun(a, n) ==
    IF n = 0 THEN a
    ELSE IF n = 1 THEN AlienUpdate(a)
    ELSE LET m == AlienRun(a, n \div 2)
         IN  IF m.x = m.x THEN AlienRun(m, n - n \div 2) ELSE a

AlienAfter(n) == AlienRun(Alien(1, AlienStartX, AlienStartY, AlienStartSpeed), n)

\* The ticks a run from mid-game starts after, the x of the player when a
\* bullet was fired (100 plus a multiple of the step) and the ticks a bullet
\* has flown since (it rises from 500 by 10 a tick).
HitStarts == {44, 45}
FiredAt == {320, 330, 500}
Ages == {36, 37, 38}

\* The bullet lists of a state between two ticks: the bullets stand in the
\* order they were fired in, the oldest first.
FlownLists ==
    UNION {{[i \in 1..n |-> Bullet(i, f[i][1], SpawnY - BulletVelocity * f[i][2])] :
                f \in {g \in [1..n -> FiredAt \X Ages] :
                          \A i \in 1..(n - 1) : g[i][2] >= g[i + 1][2]}} :
           n \in 1..MaxHitBullets}

\* The alien after each number of ticks up to the latest start.
AlienTrack == [n \in 0..45 |-> AlienAfter(n)]

\* Bullet b, in flight after tick t, has met the alien in no collision pass
\* so far: not in that of tick t, nor in an earlier one, when it was lower.
NeverMet(b, t, d) ==
    \A j \in 0..((SpawnY - b.y) \div BulletVelocity - 1) :
        ~Hits([b EXCEPT !.y = b.y + BulletVelocity * j], AlienTrack[t - j], d)

InitHit ==
    \E d \in DimChoices, t \in HitStarts, bl \in FlownLists :
        /\ \A i \in 1..Len(bl) : NeverMet(bl[i], t, d)
        /\ pc = "tick"
        /\ running = TRUE
        /\ event_list = << >>
        /\ player = [Player EXCEPT !.x = 330]
        /\ alien_list = <<AlienTrack[t]>>
        /\ bullet_list = bl
        /\ next_id = Len(bl) + 1
        /\ dims = d
        /\ frame = Blits(player, alien_list, bullet_list)
        /\ ticks = t
        /\ horizon = t + MaxHitTicks
        /\ budget = 0
        /\ seen = << >>
        /\ steps = <<"update", "collide", "display", "events">>
        /\ prev = [player |-> player, al |-> << >>, bl |-> << >>]
        /\ pass_in = NoLists
        /\ cmp = << >>
        /\ walk_in = bl
        /\ flips = << >>
        /\ trail = [x0 |-> player.x, y0 |-> player.y, sum |-> 0]

SpecHit == InitHit /\ [][NextQuiet]_vars

\* C3: in the started program (one alien), in a tick in which after the
\* update at least one bullet intersects the alien, the collision pass
\* removes the alien and exactly one bullet, the first intersecting one in
\* list order; every other bullet stays, in its place.
C3_OneAlienOneBullet ==
    /\ ~PassRaised
    /\ (PassDone /\ Len(pass_in.al) = 1 /\ Hitting(pass_in.bl, pass_in.al) # {})
       => LET H     == Hitting(pass_in.bl, pass_in.al)
              first == CHOOSE i \in H : \A k \in H : i <= k
          IN  /\ alien_list = << >>
              /\ bullet_list = SubSeq(pass_in.bl, 1, first - 1)
                                  \o SubSeq(pass_in.bl, first + 1, Len(pass_in.bl))
    /\ (PassDone /\ Hitting(pass_in.bl, pass_in.al) = {})
       => alien_list = pass_in.al /\ bullet_list = pass_in.bl

\* C3's case: two of three bullets intersect the alien, the first does not.
C3_Witness ==
    /\ PassDone
    /\ Len(pass_in.al) = 1
    /\ Len(pass_in.bl) = 3
    /\ Hitting(pass_in.bl, pass_in.al) = {2, 3}
    /\ alien_list = << >>
    /\ Len(bullet_list) = 2

\* ------------------------------------------------------- claims on the loop
IsKey(e, t, k) == e.type = t /\ e.key = k
Count(s, t, k) == Cardinality({i \in 1..Len(s) : IsKey(s[i], t, k)})

\* A tick has just ended: the walk over its events is done.
TickEnded == pc = "tick" /\ ticks > 0
FullTick == <<"update", "collide", "display", "events">>

\* The bullets the walk over the events of the tick just ended appended.
Appended == SubSeq(bullet_list, Len(walk_in) + 1, Len(bullet_list))

BulletBlits(bl) == [i \in 1..Len(bl) |-> [img |-> "Bullet", x |-> bl[i].x, y |-> bl[i].y]]
IsBulletBlit(b) == b.img = "Bullet"

C6_OneBulletPerBatch ==
    TickEnded => Len(Appended) = (IF Count(event_list, "KEYDOWN", "K_SPACE") > 0 THEN 1 ELSE 0)

\* C6, amended: a tick appends one bullet for every SPACE key-down of its
\* batch, after the bullets already in the list, which it leaves as they are.
C6_OneBulletPerKeyDown ==
    TickEnded =>
        /\ Len(bullet_list) = Len(walk_in) + Count(event_list, "KEYDOWN", "K_SPACE")
        /\ SubSeq(bullet_list, 1, Len(walk_in)) = walk_in

\* C6's case: a batch with two SPACE key-downs has appended two bullets.
C6_Witness ==
    /\ TickEnded
    /\ Count(event_list, "KEYDOWN", "K_SPACE") = 2
    /\ Len(Appended) = 2

HasStop(evs) == \E i \in 1..Len(evs) : IsKey(evs[i], "KEYUP", "K_ESCAPE") \/ evs[i].type = "QUIT"

\* C7: the loop stops at the end of tick t exactly if t's batch holds an
\* ESCAPE key-up or a QUIT (an ESCAPE key-down does not stop it); the stop
\* comes after t's update, collision pass and render; after it no step of
\* a tick runs again.
C7_StopAtTickEnd ==
    /\ [](TickEnded => (running <=> ~HasStop(event_list)))
    /\ [](~running => (pc \in {"tick", "done"} /\ steps = FullTick))
    /\ [](pc = "done" => ~running)
    /\ [][~running => (pc' = "done" /\ ticks' = ticks /\ steps' = steps /\ ~running')]_vars

\* C7's case: the loop has ended in the second tick, on an ESCAPE key-up,
\* after an ESCAPE key-down in the first tick that did not end it.
C7_Witness ==
    /\ pc = "done"
    /\ ticks = 2
    /\ Len(seen) > Len(event_list)
    /\ IsKey(seen[1], "KEYDOWN", "K_ESCAPE")
    /\ \E i \in 1..Len(event_list) : IsKey(event_list[i], "KEYUP", "K_ESCAPE")
    /\ steps = FullTick

\* ------------------------------------------------- claims on Player.update
NoRight(s) == \A i \in 1..Len(s) : s[i].key # "K_RIGHT"

\* The LEFT key-downs of s that no later LEFT key-up of s is matched with,
\* each key-up being matched with the latest key-down still unmatched.
RECURSIVE HeldLeft(_, _)
HeldLeft(s, held) ==
    IF s = << >> THEN held
    ELSE IF IsKey(Head(s), "KEYDOWN", "K_LEFT") THEN HeldLeft(Tail(s), held + 1)
    ELSE IF IsKey(Head(s), "KEYUP", "K_LEFT")
         THEN HeldLeft(Tail(s), IF held > 0 THEN held - 1 ELSE 0)
    ELSE HeldLeft(Tail(s), held)

\* The LEFT key-ups of s that no earlier LEFT key-down of s is matched with.
RECURSIVE StrayLeftUps(_, _)
StrayLeftUps(s, held) ==
    IF s = << >> THEN 0
    ELSE IF IsKey(Head(s), "KEYDOWN", "K_LEFT") THEN StrayLeftUps(Tail(s), held + 1)
    ELSE IF IsKey(Head(s), "KEYUP", "K_LEFT")
         THEN (IF held > 0 THEN StrayLeftUps(Tail(s), held - 1)
                           ELSE 1 + StrayLeftUps(Tail(s), 0))
    ELSE StrayLeftUps(Tail(s), held)

\* C8 as stated: from velocity 0, after any events, split over any ticks,
\* with no RIGHT event and every LEFT key-down followed by a matching LEFT
\* key-up, the horizontal velocity is 0.
C8_LeftPairsCancel ==
    (NoRight(seen) /\ HeldLeft(seen, 0) = 0) => player.x_vel = 0

\* C8, amended: the same, for sequences in which moreover every LEFT key-up
\* follows a LEFT key-down it is matched with.
C8_MatchedLeftPairsCancel ==
    (NoRight(seen) /\ HeldLeft(seen, 0) = 0 /\ StrayLeftUps(seen, 0) = 0) => player.x_vel = 0

\* C8's case: LEFT pressed in one tick and released in the next.
C8_Witness ==
    /\ ticks = 2
    /\ pc = "collide"
    /\ NoRight(seen)
    /\ Count(seen, "KEYDOWN", "K_LEFT") = 1
    /\ Count(event_list, "KEYUP", "K_LEFT") = 1
    /\ Count(event_list, "KEYDOWN", "K_LEFT") = 0
    /\ HeldLeft(seen, 0) = 0
    /\ StrayLeftUps(seen, 0) = 0
    /\ player.x_vel = 0
    /\ player.x = PlayerStartX - PlayerStep

IsMove(e) == e.key \in {"K_LEFT", "K_RIGHT"}

\* C9: the velocity is 10 * (RIGHT key-downs - RIGHT key-ups)
\* - 10 * (LEFT key-downs - LEFT key-ups) over the events seen so far; so
\* after key-down(LEFT), key-down(RIGHT), key-up(RIGHT), however split over
\* batches, it is -10.
C9_VelocityIsSumOfDeltas ==
    /\ player.x_vel =
          10 * (Count(seen, "KEYDOWN", "K_RIGHT") - Count(seen, "KEYUP", "K_RIGHT"))
          - 10 * (Count(seen, "KEYDOWN", "K_LEFT") - Count(seen, "KEYUP", "K_LEFT"))
    /\ SelectSeq(seen, IsMove) = <<KeyEvent("KEYDOWN", "K_LEFT"), KeyEvent("KEYDOWN", "K_RIGHT"),
                                   KeyEvent("KEYUP", "K_RIGHT")>>
       => player.x_vel = -10

\* C9's case: LEFT and RIGHT pressed in one tick, RIGHT released in the next.
C9_Witness ==
    /\ ticks = 2
    /\ pc = "collide"
    /\ seen = <<KeyEvent("KEYDOWN", "K_LEFT"), KeyEvent("KEYDOWN", "K_RIGHT"),
                KeyEvent("KEYUP", "K_RIGHT")>>
    /\ event_list = <<KeyEvent("KEYUP", "K_RIGHT")>>
    /\ player.x_vel = -10

\* ---------------------------------------------------- claims on Alien.update
\* The update of a tick has just run.
Updated == pc = "collide" /\ steps = <<"update">>

Outside(a) == a.x < a.left_limit \/ a.x > a.right_limit

\* C10: for the alien started at (100, 100) with speed 5 and limits
\* [50, 500], the speed changes sign in exactly the ticks in which x after
\* the move is outside [50, 500], y grows by exactly 10 in exactly those
\* ticks and is unchanged in the others, and the first such tick is the
\* first in which x exceeds 500.
C10_FlipAndDropTogether ==
    /\ (Updated /\ alien_list # << >>) =>
          LET a0 == prev.al[1]
              a1 == alien_list[1]
          IN  /\ a1.x = a0.x + a0.speed
              /\ Outside(a1) => (a1.speed = -a0.speed /\ a1.y = a0.y + 10)
              /\ ~Outside(a1) => (a1.speed = a0.speed /\ a1.y = a0.y)
    /\ flips # << >> => flips[1].x > RightLimit
    /\ (flips = << >> /\ alien_list # << >>) =>
          (alien_list[1].x <= RightLimit /\ alien_list[1].x >= AlienStartX)

\* C10's case: the alien has met the right limit and then the left one.
C10_Witness ==
    /\ Updated
    /\ Len(flips) = 2
    /\ flips[1].x > RightLimit
    /\ flips[2].x < LeftLimit
    /\ flips[2].tick = ticks
    /\ alien_list[1].y = AlienStartY + 2 * AlienDrop
    /\ alien_list[1].speed = AlienStartSpeed

\* ------------------------------------------------ runs from late in the game
\* The alien flips first at x = 505, after 81 ticks, and then every 92
\* ticks, each flip taking it 10 lower.  After 3796 ticks in which no bullet
\* met it, it has flipped 41 times and is at (330, 510), moving left, beside
\* the row bullets are spawned in.
LowStart == {3796}
LowAlien == AlienAfter(3796)

\* The ticks the oldest bullet of a late start has flown: enough to take it
\* from y = 500 past the top of the screen.
LongFlight == 52

\* The alien in the last LongFlight ticks before the start.
LowTrack == [n \in 0..LongFlight |-> AlienRun(AlienAfter(3796 - LongFlight), n)]

\* The bullet list between two ticks, late in the game: empty, or one bullet
\* that the last event walk spawned, or that one behind a bullet spawned
\* LongFlight ticks before it.
LateBullets ==
    {<< >>,
     <<Bullet(1, 330, SpawnY)>>,
     <<Bullet(1, 330, SpawnY - LongFlight * BulletVelocity), Bullet(2, 330, SpawnY)>>}

\* Bullet b met the alien in no collision pass since it was spawned.
LowNeverMet(b, d) ==
    LET k == (SpawnY - b.y) \div BulletVelocity
    IN  \A n \in 1..k :
            ~Hits([b EXCEPT !.y = SpawnY - n * BulletVelocity], LowTrack[LongFlight - k + n], d)

\* A state between two ticks with the alien low, the player below it.
InitLow ==
    \E d \in DimChoices, bl \in LateBullets :
        LET flown == SubSeq(bl, 1, Len(bl) - 1)
        IN  /\ \A i \in 1..Len(bl) : LowNeverMet(bl[i], d)
            /\ LowTrack[LongFlight] = LowAlien
            /\ pc = "tick"
            /\ running = TRUE
            /\ event_list = << >>
            /\ player = [Player EXCEPT !.x = 330]
            /\ alien_list = <<LowAlien>>
            /\ bullet_list = bl
            /\ next_id = Len(bl) + 1
            /\ dims = d
            /\ frame = Blits(player, alien_list, flown)
            /\ ticks \in LowStart
            /\ horizon = ticks + MaxTicks
            /\ budget = MaxEvents
            /\ seen = << >>
            /\ steps = FullTick
            /\ prev = [player |-> player,
                       al |-> <<LowTrack[LongFlight - 1]>>,
                       bl |-> [i \in 1..Len(flown) |->
                                  [flown[i] EXCEPT !.y = @ + BulletVelocity]]]
            /\ pass_in = [bl |-> flown, al |-> alien_list]
            /\ cmp = [i \in 1..Len(flown) |-> <<flown[i].id, LowAlien.id>>]
            /\ walk_in = flown
            /\ flips = << >>
            /\ trail = [x0 |-> player.x, y0 |-> player.y, sum |-> 0]

SpecLow == InitLow /\ [][Next]_vars

\* C11: no step adds an alien: the number of active aliens never grows,
\* every active alien was active before the step, and once the alien list
\* is empty it stays empty, whatever events arrive.
C11_AliensNeverReturn ==
    [][/\ Len(alien_list') <= Len(alien_list)
       /\ \A i \in 1..Len(alien_list') :
             \E j \in 1..Len(alien_list) : alien_list[j].id = alien_list'[i].id
       /\ alien_list = << >> => alien_list' = << >>]_vars

\* C11's case: a tick that began with no alien left has ended, and its
\* batch held a SPACE key-down, for which a bullet was spawned.
C11_Witness ==
    /\ TickEnded
    /\ alien_list = << >>
    /\ pass_in.al = << >>
    /\ prev.al = << >>
    /\ Len(Appended) >= 1

\* ------------------------------------- runs with no alien and no bullet left
\* A state between two ticks after the only bullet in flight has removed the
\* alien: both lists are empty, the player is anywhere, at rest or moving.
EmptyStart == {100}

InitEmpty ==
    \E d \in DimChoices, v \in {0, PlayerStep}, t \in EmptyStart :
        /\ pc = "tick"
        /\ running = TRUE
        /\ event_list = << >>
        /\ player = [Player EXCEPT !.x = 330, !.x_vel = v]
        /\ alien_list = << >>
        /\ bullet_list = << >>
        /\ next_id = 2
        /\ dims = d
        /\ frame = Blits(player, << >>, << >>)
        /\ ticks = t
        /\ horizon = t + MaxTicks
        /\ budget = MaxEvents
        /\ seen = << >>
        /\ steps = FullTick
        /\ prev = [player |-> player, al |-> << >>, bl |-> << >>]
        /\ pass_in = NoLists
        /\ cmp = << >>
        /\ walk_in = << >>
        /\ flips = << >>
        /\ trail = [x0 |-> player.x, y0 |-> player.y, sum |-> 0]

SpecEmpty == InitEmpty /\ [][Next]_vars

NoFire(s) == Count(s, "KEYDOWN", "K_SPACE") = 0

\* C12: from a state with no alien and no bullet, after any number of
\* ticks whose batches hold no SPACE key-down, both lists are still empty,
\* no error was raised, the player's y is what it was, and the player's x
\* has changed by the sum, over those ticks, of the velocity held after the
\* tick's events were applied.
C12_EmptyStaysEmpty ==
    NoFire(seen) =>
        /\ alien_list = << >>
        /\ bullet_list = << >>
        /\ ~PassRaised
        /\ player.y = trail.y0
        /\ player.x = trail.x0 + trail.sum

\* C12's case: two such ticks have ended, with events in both that changed
\* the velocity, so that the two ticks moved the player by different amounts.
C12_Witness ==
    /\ TickEnded
    /\ NoFire(seen)
    /\ Len(seen) > Len(event_list)
    /\ event_list # << >>
    /\ trail.sum # 0
    /\ trail.sum # 2 * player.x_vel
    /\ player.x = trail.x0 + trail.sum
    /\ bullet_list = << >>

\* ------------------------------------------------------ render pass claims
Rendered == pc = "events" /\ steps = <<"update", "collide", "display">>

\* C13: a render pass changes neither the player nor the two lists, their
\* members or their order, and it blits the background, then the player,
\* then every alien in list order, then every bullet in list order, each at
\* the object's position; as the pass leaves that state as it was, a second
\* pass with no update between the two draws the same sequence.
C13_RenderChangesNothing ==
    [][pc = "display" =>
          LET n == Len(alien_list')
              m == Len(bullet_list')
          IN  /\ player' = player
              /\ alien_list' = alien_list
              /\ bullet_list' = bullet_list
              /\ Len(frame') = 2 + n + m
              /\ frame'[1] = [img |-> "back", x |-> 0, y |-> 0]
              /\ frame'[2] = [img |-> "UFO", x |-> player'.x, y |-> player'.y]
              /\ \A i \in 1..n :
                    frame'[2 + i] =
                        [img |-> "Alien", x |-> alien_list'[i].x, y |-> alien_list'[i].y]
              /\ \A j \in 1..m :
                    frame'[2 + n + j] =
                        [img |-> "Bullet", x |-> bullet_list'[j].x, y |-> bullet_list'[j].y]]_vars

\* C13's case: a render pass has just drawn an alien and two bullets, the
\* second of them spawned one tick before.
C13_Witness ==
    /\ Rendered
    /\ Len(alien_list) = 1
    /\ Len(bullet_list) = 2
    /\ Len(frame) = 5
    /\ frame[5].y = SpawnY - BulletVelocity

\* ------------------------------------------------------ the alien's range
\* C14: the alien started at x = 100 with speed 5 and limits 50 and 500
\* has, as long as it is in the list, 45 <= x <= 505 and a speed of 5 or
\* -5, and its x is never outside [50, 500] at the end of two consecutive
\* ticks.
C14_AlienStaysInRange ==
    \A i \in 1..Len(alien_list) :
        /\ alien_list[i].x >= 45
        /\ alien_list[i].x <= 505
        /\ alien_list[i].speed \in {5, -5}
        /\ \A j \in 1..Len(prev.al) :
              prev.al[j].id = alien_list[i].id =>
                  ~(Outside(prev.al[j]) /\ Outside(alien_list[i]))

\* C14's case: the alien has turned at the right limit, at x = 505, and
\* then at the left limit, and stands at x = 45 with its speed back to 5.
C14_Witness ==
    /\ Updated
    /\ Len(alien_list) = 1
    /\ alien_list[1].x = 45
    /\ alien_list[1].speed = 5
    /\ Len(flips) = 2
    /\ flips[1].x = 505
    /\ ~Outside(prev.al[1])

\* --------------------------------------------------- the life of a bullet
Gone(b, bl) == \A j \in 1..Len(bl) : bl[j].id # b.id

\* C15: a bullet leaves the bullet list only in a collision pass in which
\* its rectangle intersects that of an alien; no other step removes a
\* bullet.  Once the alien list is empty the number of bullets never goes
\* down, every bullet keeps its x, and its y goes down by exactly 10 in each
\* tick's update, without a lower bound.
C15_BulletsLeaveOnlyOnHit ==
    [][/\ \A i \in 1..Len(bullet_list) :
             Gone(bullet_list[i], bullet_list') =>
                 /\ pc = "collide"
                 /\ \E j \in 1..Len(alien_list) : Hits(bullet_list[i], alien_list[j], dims)
       /\ alien_list = << >> =>
             /\ Len(bullet_list') >= Len(bullet_list)
             /\ \A i \in 1..Len(bullet_list) :
                   /\ bullet_list'[i].id = bullet_list[i].id
                   /\ bullet_list'[i].x = bullet_list[i].x
                   /\ bullet_list'[i].y =
                          IF pc = "update" THEN bullet_list[i].y - 10 ELSE bullet_list[i].y]_vars

\* C15's case: the last pass took a bullet and the alien out of the lists,
\* and with no alien left this tick's update has moved the other bullet,
\* already above the top of the screen, 10 further up.
C15_Witness ==
    /\ Updated
    /\ alien_list = << >>
    /\ prev.al = << >>
    /\ Len(pass_in.al) = 1
    /\ Len(pass_in.bl) = 2
    /\ Len(prev.bl) >= 1
    /\ prev.bl[1].y + dims.bh < 0
    /\ bullet_list[1].y = prev.bl[1].y - 10

\* ------------------------------------------------- where a bullet is spawned
\* C16: a bullet spawned in a tick is created at the x the player has
\* after that tick's Player.update (the x before the tick plus the velocity
\* after the batch) and at y = 500, whatever the velocity and whatever else
\* the batch holds.
C16_SpawnAtUpdatedPlayer ==
    TickEnded =>
        \A i \in 1..Len(Appended) :
            /\ Appended[i].x = player.x
            /\ Appended[i].x = prev.player.x + player.x_vel
            /\ Appended[i].y = 500

\* C16's case: a tick whose batch changed the velocity of a player already
\* moving, and pressed SPACE, has ended.
C16_Witness ==
    /\ TickEnded
    /\ Len(Appended) >= 1
    /\ Len(event_list) >= 2
    /\ prev.player.x_vel # 0
    /\ player.x_vel # prev.player.x_vel
    /\ player.x_vel # 0
    /\ Appended[1].x = player.x

\* ------------------------------------------------ the player's move in a tick
\* The batch holds a key-down and a key-up of one same key.
HasTap(s) == \E k \in Keys : Count(s, "KEYDOWN", k) >= 1 /\ Count(s, "KEYUP", k) >= 1

\* The batch holds as many key-ups as key-downs, of LEFT and of RIGHT.
Balanced(s) ==
    \A k \in {"K_LEFT", "K_RIGHT"} : Count(s, "KEYDOWN", k) = Count(s, "KEYUP", k)

\* Player.update has moved the player once, by the velocity the whole batch left.
MovedOnce ==
    /\ player.x_vel = prev.player.x_vel
                        + 10 * (Count(event_list, "KEYDOWN", "K_RIGHT")
                                  + Count(event_list, "KEYUP", "K_LEFT"))
                        - 10 * (Count(event_list, "KEYDOWN", "K_LEFT")
                                  + Count(event_list, "KEYUP", "K_RIGHT"))
    /\ player.x = prev.player.x + player.x_vel
    /\ player.y = prev.player.y

\* C17 as stated: Player.update applies the deltas of all events of the
\* batch and then adds the resulting velocity to x once, so that any batch
\* holding the key-down and the key-up of a same key moves the player by the
\* velocity held before the tick.
C17_TapMovesByOldVelocity ==
    Updated =>
        /\ MovedOnce
        /\ HasTap(event_list) => player.x = prev.player.x + prev.player.x_vel

\* C17: Player.update applies the deltas of all events of the batch and
\* then adds the resulting velocity to x once; a batch whose key-downs and
\* key-ups of LEFT, and of RIGHT, are equal in number moves the player by the
\* velocity held before the tick.
C17_BalancedBatchMovesByOldVelocity ==
    Updated =>
        /\ MovedOnce
        /\ Balanced(event_list) => player.x = prev.player.x + prev.player.x_vel

\* C17's case: a player moving right gets the key-down and the key-up of
\* LEFT in one batch, and the update has moved it by the velocity it had.
C17_Witness ==
    /\ Updated
    /\ prev.player.x_vel # 0
    /\ Count(event_list, "KEYDOWN", "K_LEFT") = 1
    /\ Count(event_list, "KEYUP", "K_LEFT") = 1
    /\ Balanced(event_list)
    /\ player.x = prev.player.x + prev.player.x_vel

\* --------------------------------------------------- removals come in pairs
\* C18: in every collision pass that runs to its end, as many bullets
\* have left the bullet list as aliens have left the alien list, whatever the
\* two lists held.
C18_RemovedInPairs ==
    PassDone =>
        Len(pass_in.bl) - Len(bullet_list) = Len(pass_in.al) - Len(alien_list)

\* C18's case: a pass over several bullets and aliens has run to its end
\* and has taken two bullets and two aliens out, leaving an alien behind.
C18_Witness ==
    /\ PassDone
    /\ Len(pass_in.bl) - Len(bullet_list) = 2
    /\ Len(pass_in.al) - Len(alien_list) = 2
    /\ Len(alien_list) = 1

\* ------------------------------------------- a bullet's first collision test
\* This tick's collision pass has run.
AfterPass == Len(steps) >= 2 /\ steps[2] = "collide"

\* Bullet b as it was when the event walk created it.
AtSpawn(b) == [b EXCEPT !.y = 500]

\* C19: a bullet spawned in a tick is neither moved nor compared with an
\* alien in that tick: at the tick's end it is at y = 500, is not among the
\* bullets the update moved and is in no comparison of the pass.  Every
\* bullet a pass compares has been moved by the same tick's update before,
\* so it is at y = 490 or above, never at its spawn position, and an alien
\* leaves the list only if a bullet intersects it where the update put it.
C19_NeverTestedAtSpawn ==
    /\ TickEnded =>
          \A i \in 1..Len(Appended) :
              /\ Appended[i].y = 500
              /\ \A j \in 1..Len(prev.bl) : prev.bl[j].id # Appended[i].id
              /\ \A k \in 1..Len(cmp) : cmp[k][1] # Appended[i].id
    /\ AfterPass =>
          /\ Len(pass_in.bl) = Len(prev.bl)
          /\ \A i \in 1..Len(pass_in.bl) :
                /\ pass_in.bl[i].id = prev.bl[i].id
                /\ pass_in.bl[i].y = prev.bl[i].y - 10
                /\ pass_in.bl[i].y <= 490
          /\ \A k \in 1..Len(cmp) : \E i \in 1..Len(pass_in.bl) : pass_in.bl[i].id = cmp[k][1]
          /\ \A j \in 1..Len(pass_in.al) :
                (\A m \in 1..Len(alien_list) : alien_list[m].id # pass_in.al[j].id) =>
                    \E i \in 1..Len(pass_in.bl) : Hits(pass_in.bl[i], pass_in.al[j], dims)

\* C19's case: a bullet spawned in the run, one tick ago, has been moved
\* to y = 490 and compared with the alien; the alien intersects the
\* rectangle the bullet had at its spawn position only, and is still in the
\* list after the pass.
C19_Witness ==
    /\ PassDone
    /\ Count(seen, "KEYDOWN", "K_SPACE") >= 1
    /\ alien_list = pass_in.al
    /\ Len(alien_list) = 1
    /\ \E i \in 1..Len(pass_in.bl) :
          /\ pass_in.bl[i].y = 490
          /\ pass_in.bl[i].id >= 3
          /\ prev.bl[i].y = 500
          /\ Hits(AtSpawn(pass_in.bl[i]), alien_list[1], dims)
          /\ ~Hits(pass_in.bl[i], alien_list[1], dims)
          /\ \E k \in 1..Len(cmp) : cmp[k] = <<pass_in.bl[i].id, alien_list[1].id>>

=============================================================================
